---- MODULE Spec2Model ----
(***************************************************************************)
(* A model of amara's time-series dataset assembly (TimeSeriesDataset), of *)
(* the ARIMA model search (ARIMAWrapper.exhaustive_search) and of the      *)
(* library's utilities: PredictionStorage, MasterCalendar, processor_loop  *)
(* and ThreadSafeProgressBar.                                              *)
(*                                                                         *)
(* Dates are integers YYYYMMDD, so the integer order is the calendar       *)
(* order.  A date-indexed table is a record [index, columns]: the sorted   *)
(* sequence of its row dates and the sequence of its column names.  Rows   *)
(* are only ever selected, never rewritten, so the cells of a row are      *)
(* determined by the table it comes from, its date and its column; of the  *)
(* values the table keeps, per column, the order of integration ("order"): *)
(* how many times the column must be differenced to pass the stationarity  *)
(* test.                                                                   *)
(* An optional value (Python's None or a value) is the empty sequence or   *)
(* a one-element sequence.                                                 *)
(***************************************************************************)
EXTENDS Integers, Sequences, FiniteSets, TLC

VARIABLES
    phase,              \* "new": not constructed, "ready": object exists, "failed": __init__ raised
    caller_datasets,    \* the DataFrames the caller passed to __init__, as the caller holds them
    initial_datasets,   \* self.__initial_datasets
    datasets,           \* self.__datasets
    valid_years,        \* self.__valid_years
    date_range,         \* self.__date_range
    consolidated_data,  \* self.__consolidated_data
    target,             \* self.__target
    forecast_date,      \* self.__forecast_date
    train_data,         \* self.__train_data
    forecast_data,      \* self.__forecast_data
    last,               \* the last call made on the object: operation, arguments, outcome
    \* ARIMAWrapper.exhaustive_search
    pc,                 \* "idle", "loop": in the sweep, "done": returned, "raised": an exception left it
    sweep,              \* the arguments of the call and the number of configurations gone through
    passes,             \* passes
    failures,           \* failures
    orders,             \* orders: the rows of the passed models
    tracker,            \* the SingleProgressBar: steps and current step
    attempted,          \* the orders (p, d, q) an ARIMA model was built for, in order
    fit,                \* what the last configuration gone through did
    \* PredictionStorage
    prediction_storage, \* None before construction, then [max_caches, storage, cache_signature]
    added,              \* the caches add_cache has added, in the order of the calls
    \* MasterCalendar
    master_calendar,    \* [min_date, max_date]: self.__min_date, self.__max_date
    passed,             \* the date strings passed to update_date_range so far, as new_min and as new_max
    \* a batch of processor_loop jobs run by threads that share a ThreadSafeProgressBar
    jobs,               \* per job: its arguments, where its thread is, the values it has read
    progress_tracker,   \* the bar: steps, bar_length, current_step, done_section, tbd_section
    update_calls,       \* how many calls of progress_tracker.update() have been made
    \* ARIMAWrapper
    session             \* None before construction, then the wrapper's frames and what fitting them yields

tsd_vars == <<phase, caller_datasets, initial_datasets, datasets, valid_years, date_range,
              consolidated_data, target, forecast_date, train_data, forecast_data, last>>

search_vars == <<pc, sweep, passes, failures, orders, tracker, attempted, fit>>

\* the fields of the dataset, without the record of the last call
dataset_vars == <<phase, caller_datasets, initial_datasets, datasets, valid_years, date_range,
                  consolidated_data, target, forecast_date, train_data, forecast_data>>

storage_vars == <<prediction_storage, added>>

\* the objects of the library's utilities
calendar_vars == <<master_calendar, passed>>

batch_vars == <<jobs, progress_tracker, update_calls>>

lib_vars == <<storage_vars, calendar_vars, batch_vars, session>>

vars == <<tsd_vars, search_vars, lib_vars>>

----------------------------------------------------------------------------
(* Bounds *)

\* number of calendar years the input tables of the year-window specification span
NumYears == 4

\* the most (p, d, q) configurations of one sweep
MaxConfigs == 4

\* the largest train_months and forecast_months passed to split
MaxMonths == 1

\* the order of integration of the trending input column: the differencing
\* rounds it takes to pass the stationarity test
MaxDiffs == 1

\* the largest max_caches a PredictionStorage is built with
MaxCaches == 2

\* the most caches added to one PredictionStorage
MaxAdds == 4

\* the files of a batch, one processor_loop job each
NumJobs == 2

----------------------------------------------------------------------------
(* Optional values *)

None == <<>>
Some(x) == <<x>>
IsNone(o) == o = <<>>
Get(o) == o[1]

----------------------------------------------------------------------------
(* Calendar *)

\* datetime.min and datetime.max, the sentinels of the running range
DatetimeMin == 10101
DatetimeMax == 99991231

Year(date) == date \div 10000
Month(date) == (date \div 100) % 100
Day(date) == date % 100
MkDate(y, m, d) == y * 10000 + m * 100 + d

isleap(y) == (y % 4 = 0) /\ ((y % 100 # 0) \/ (y % 400 = 0))

DaysInMonth(y, m) ==
    IF m = 2 THEN (IF isleap(y) THEN 29 ELSE 28)
    ELSE IF m \in {4, 6, 9, 11} THEN 30 ELSE 31

IsDate(date) ==
    /\ Month(date) \in 1..12
    /\ Day(date) \in 1..DaysInMonth(Year(date), Month(date))

\* date + relativedelta(months=n): the month moves by n (n may be negative),
\* the day is clipped to the last day of the month reached
AddMonths(date, n) ==
    LET total == Year(date) * 12 + (Month(date) - 1) + n
        y == total \div 12
        m == (total % 12) + 1
        dim == DaysInMonth(y, m)
    IN  MkDate(y, m, IF Day(date) > dim THEN dim ELSE Day(date))

\* date.replace(year=y): the same month and day in year y; there is no such
\* date (ValueError) for 29 February in a year that is not a leap year
ReplaceYearRaises(date, y) == ~IsDate(MkDate(y, Month(date), Day(date)))
ReplaceYear(date, y) == MkDate(y, Month(date), Day(date))

----------------------------------------------------------------------------
(* Sequences and tables *)

Range(s) == {s[i] : i \in 1..Len(s)}

RECURSIVE SortedSeq(_)
\* the elements of a finite set of integers in increasing order
SortedSeq(S) ==
    IF S = {} THEN <<>>
    ELSE LET m == CHOOSE x \in S : \A y \in S : x <= y
         IN  <<m>> \o SortedSeq(S \ {m})

Table(index, columns, order) == [index |-> index, columns |-> columns, order |-> order]

\* data.loc[mask]: the rows whose date satisfies Keep, in their order
Rows(data, Keep(_)) == [data EXCEPT !.index = SelectSeq(data.index, Keep)]

\* data.loc[(data.index >= lo) & (data.index <= hi)]
Between(data, lo, hi) == Rows(data, LAMBDA d : d >= lo /\ d <= hi)

RECURSIVE Unique(_)
\* index.year.unique().tolist(): the distinct values in order of first appearance
Unique(s) ==
    IF s = <<>> THEN <<>>
    ELSE LET rest == Unique(SubSeq(s, 1, Len(s) - 1))
             x == s[Len(s)]
         IN  IF x \in Range(rest) THEN rest ELSE Append(rest, x)

YearsOf(data) == Unique([i \in 1..Len(data.index) |-> Year(data.index[i])])

----------------------------------------------------------------------------
(* create_datetime_index: the datetime column becomes the index and is      *)
(* dropped from the columns.  An input table is [dates, columns]: the      *)
(* values of its datetime column, row by row, and all its column names.     *)

create_datetime_index(data, datetime_col) ==
    Table(data.dates, SelectSeq(data.columns, LAMBDA c : c # datetime_col), data.order)

----------------------------------------------------------------------------
(* TimeSeriesDataset.__init__ *)

RECURSIVE RemoveYears(_, _)
\* for year in removed_years: data = data.loc[data.index.year != year]
RemoveYears(data, removed_years) ==
    IF removed_years = <<>> THEN data
    ELSE RemoveYears(Rows(data, LAMBDA d : Year(d) # Head(removed_years)),
                     Tail(removed_years))

\* one table after indexing and year removal (the working and the initial copy
\* are built the same way); removed_years is None or a tuple of years
Indexed(data, datetime_col, removed_years) ==
    LET t == create_datetime_index(data, datetime_col)
    IN  IF IsNone(removed_years) THEN t ELSE RemoveYears(t, Get(removed_years))

\* the running range turned round: nothing is later than its start, nothing
\* earlier than its end
NoRangeInverted == [start_date |-> DatetimeMax, end_date |-> DatetimeMin]

\* _DateRange(datetime.min, datetime.max): the range the unification starts from
NoRange == [start_date |-> DatetimeMin, end_date |-> DatetimeMax]

\* one step of the unification loop: compare a table's first and last date
\* against the running range
NarrowUnion(range, data) ==
    LET min_date == data.index[1]
        max_date == data.index[Len(data.index)]
    IN  [start_date |-> IF min_date < range.start_date THEN min_date ELSE range.start_date,
         end_date   |-> IF max_date > range.end_date THEN max_date ELSE range.end_date]

Narrow(range, data) ==
    LET min_date == data.index[1]
        max_date == data.index[Len(data.index)]
    IN  [start_date |-> IF min_date > range.start_date THEN min_date ELSE range.start_date,
         end_date   |-> IF max_date < range.end_date THEN max_date ELSE range.end_date]

RECURSIVE Unify(_, _)
Unify(range, tables) ==
    IF tables = <<>> THEN range
    ELSE Unify(Narrow(range, Head(tables)), Tail(tables))

\* __init__ indexing the caller's DataFrames themselves: no deep copies, and
\* the datetime column dropped in place
Init__InPlace(tables, datetime_cols, removed_years) ==
    LET n == Len(tables)
        indexed == [i \in 1..n |-> Indexed(tables[i], datetime_cols[i], removed_years)]
        range == Unify(NoRange, indexed)
        callers == [i \in 1..n |->
                       IF i <= Len(datetime_cols)
                       THEN [tables[i] EXCEPT !.columns =
                                SelectSeq(@, LAMBDA c : c # datetime_cols[i])]
                       ELSE tables[i]]
    IN  IF Len(datetime_cols) < n
        THEN [result |-> "IndexError", callers |-> callers]
        ELSE IF \E i \in 1..n : indexed[i].index = <<>>
        THEN [result |-> "IndexError", callers |-> callers]
        ELSE [result |-> "ok",
              callers |-> callers,
              initial_datasets |-> indexed,
              datasets |-> [i \in 1..n |->
                               Between(indexed[i], range.start_date, range.end_date)],
              valid_years |-> [i \in 1..n |-> YearsOf(indexed[i])],
              date_range |-> range]

\* the fields of the object __init__ builds, or the exception it raises, and
\* the caller's DataFrames after the call (callers): the object's lists hold
\* deep copies, and create_datetime_index works on a copy of its own, so they
\* are as they were passed
Init__(tables, datetime_cols, removed_years) ==
    LET n == Len(tables)
        indexed == [i \in 1..n |-> Indexed(tables[i], datetime_cols[i], removed_years)]
        range == Unify(NoRange, indexed)
    IN  IF Len(datetime_cols) < n
        THEN [result |-> "IndexError",       \* self.__datetime_cols[i] past the end of the list
              callers |-> tables]
        ELSE IF \E i \in 1..n : indexed[i].index = <<>>
        THEN [result |-> "IndexError",       \* data.index[0] of a table without rows
              callers |-> tables]
        ELSE [result |-> "ok",
              callers |-> tables,
              initial_datasets |-> indexed,
              datasets |-> [i \in 1..n |->
                               Between(indexed[i], range.start_date, range.end_date)],
              valid_years |-> [i \in 1..n |-> YearsOf(indexed[i])],
              date_range |-> range]

----------------------------------------------------------------------------
(* TimeSeriesDataset.last_valid_year *)

RECURSIVE LYLoop(_, _, _, _)
\* the search loop: LY_start_year and LY_end_year on entry of an iteration,
\* the valid years of the dataset and the number of iterations left
LYLoop(LY_start_year, LY_end_year, data_valid_years, left) ==
    IF left = 0 THEN [valid_bounds_found |-> FALSE,
                      LY_start_year |-> LY_start_year, LY_end_year |-> LY_end_year]
    ELSE LET s == LY_start_year - 1
             e == LY_end_year - 1
         IN  IF (s - 1) \in data_valid_years /\ (e - 1) \in data_valid_years
             THEN [valid_bounds_found |-> TRUE,
                   LY_start_year |-> s - 1, LY_end_year |-> e - 1]
             ELSE LYLoop(s, e, data_valid_years, left - 1)

\* LY_data[columns]: KeyError when a name is no column of the table
SelectColumns(data, columns) ==
    IF IsNone(columns) THEN [result |-> "ok", ret |-> Some(data)]
    ELSE IF \E j \in 1..Len(Get(columns)) : Get(columns)[j] \notin Range(data.columns)
         THEN [result |-> "KeyError", ret |-> None]
         ELSE [result |-> "ok", ret |-> Some(Table(data.index, Get(columns), data.order))]

\* the outcome of last_valid_year(dataset_id, columns) on an object with the
\* given initial tables, valid years and unified range: the table returned, or
\* the exception raised.  dataset_id counts from 0.
last_valid_year(initial, years, range, dataset_id, columns) ==
    LET data == initial[dataset_id + 1]
        data_valid_years == years[dataset_id + 1]
        found == LYLoop(Year(range.start_date) - 1, Year(range.end_date) - 1,
                        Range(data_valid_years), Len(data_valid_years))
    IN  IF ~found.valid_bounds_found
        THEN [result |-> "Exception", ret |-> None]
        ELSE IF \/ ReplaceYearRaises(range.start_date, found.LY_start_year)
                \/ ReplaceYearRaises(range.end_date, found.LY_end_year)
        THEN [result |-> "ValueError", ret |-> None]
        ELSE SelectColumns(Between(data,
                                   ReplaceYear(range.start_date, found.LY_start_year),
                                   ReplaceYear(range.end_date, found.LY_end_year)),
                           columns)

\* last_valid_year taking the years it tries off the dataset's own list
LYFieldsConsumed(initial, years, range, dataset_id) ==
    [initial_datasets |-> initial,
     valid_years |-> [years EXCEPT ![dataset_id + 1] = SubSeq(@, 1, Len(@) - 1)],
     date_range |-> range]

\* the fields last_valid_year reads, once it has returned or raised: data is
\* a deep copy of the initial table, data_valid_years a reversed copy of the
\* list of valid years, and the range is read only (replace returns new dates)
LYFields(initial, years, range, dataset_id) ==
    [initial_datasets |-> initial, valid_years |-> years, date_range |-> range]

----------------------------------------------------------------------------
(* TimeSeriesDataset.apply.  The callback is the caller's: it is handed the *)
(* dataset's own tables (no copies), returns the first of them, and either *)
(* leaves them alone or sets a column "flag" on each of them in place.     *)

\* df[name] = 0 on a table: a column of zeros, set in place
AddColumn(data, name) ==
    IF name \in Range(data.columns) THEN data
    ELSE [index |-> data.index,
          columns |-> Append(data.columns, name),
          order |-> [c \in DOMAIN data.order \cup {name} |->
                        IF c = name THEN 0 ELSE data.order[c]]]

\* the tables handed to __callback once it has run
CallbackEffect(callback, given) ==
    [k \in 1..Len(given) |-> IF callback.mutates THEN AddColumn(given[k], "flag") ELSE given[k]]

\* the list the tables were taken from once the callback has run: the tables
\* handed over are the list's own objects
AfterCallback(callback, datasets_used, input_ids) ==
    [i \in 1..Len(datasets_used) |->
        IF \E k \in 1..Len(input_ids) : input_ids[k] + 1 = i
        THEN CallbackEffect(callback, <<datasets_used[i]>>)[1]
        ELSE datasets_used[i]]

\* apply returning what the callback returned, whatever unify is
applyNoUnify(initial, working, range, callback, input_ids, use_initial, unify) ==
    LET datasets_used == IF use_initial THEN initial ELSE working
    IN  IF \E k \in 1..Len(input_ids) : input_ids[k] \notin 0..(Len(datasets_used) - 1)
        THEN [initial_datasets |-> initial, datasets |-> working,
              result |-> "IndexError", ret |-> None]
        ELSE LET after == AfterCallback(callback, datasets_used, input_ids)
                 return_value == after[input_ids[1] + 1]
             IN  [initial_datasets |-> IF use_initial THEN after ELSE initial,
                  datasets |-> IF use_initial THEN working ELSE after,
                  result |-> "ok",
                  ret |-> Some(return_value)]

\* the outcome of apply(__callback, input_ids, use_initial, unify): the two
\* lists of tables after the call, and the table returned or the exception
apply(initial, working, range, callback, input_ids, use_initial, unify) ==
    LET datasets_used == IF use_initial THEN initial ELSE working
    IN  IF \E k \in 1..Len(input_ids) : input_ids[k] \notin 0..(Len(datasets_used) - 1)
        THEN [initial_datasets |-> initial, datasets |-> working,
              result |-> "IndexError", ret |-> None]
        ELSE LET after == AfterCallback(callback, datasets_used, input_ids)
                 return_value == after[input_ids[1] + 1]
             IN  [initial_datasets |-> IF use_initial THEN after ELSE initial,
                  datasets |-> IF use_initial THEN working ELSE after,
                  result |-> "ok",
                  ret |-> Some(IF unify
                               THEN Between(return_value, range.start_date, range.end_date)
                               ELSE return_value)]

----------------------------------------------------------------------------
(* The consolidated table.  It is a table with one more field, source: for  *)
(* each column, where its values come from ("of": a column of a working    *)
(* table, or a series handed to append), the order of integration of that  *)
(* data ("order") and how many times the column has been first-differenced *)
(* ("diffs").                                                              *)

ColumnOf(dataset_id, column, order) ==
    [of |-> <<"dataset", dataset_id, column>>, order |-> order, diffs |-> 0]
SeriesOf(data) ==
    [of |-> <<"series", data.name, data.length>>, order |-> data.order, diffs |-> 0]

\* d[name] = source on an insertion-ordered dict / DataFrame: an existing key
\* keeps its place and gets the new value, a new key goes last
SetColumn(frame, name, source) ==
    IF \E k \in 1..Len(frame.columns) : frame.columns[k] = name
    THEN LET k == CHOOSE k \in 1..Len(frame.columns) : frame.columns[k] = name
         IN  [frame EXCEPT !.source[k] = source]
    ELSE [frame EXCEPT !.columns = Append(@, name), !.source = Append(@, source)]

\* TimeSeriesDataset.data_: raises NotInitialisedError before consolidate,
\* otherwise a deep copy of the consolidated table
data_Raises(self) == IsNone(self.consolidated_data)
data_(self) == Get(self.consolidated_data)

Outcome(self, result, ret) == [self |-> self, result |-> result, ret |-> ret]

----------------------------------------------------------------------------
(* TimeSeriesDataset.consolidate *)

RECURSIVE ConsolidateColumns(_, _, _, _, _, _)
\* the inner loop over columns[i], from its j-th column on
ConsolidateColumns(frame, dataset_id, dataset, columns_i, as_names_i, j) ==
    IF j > Len(columns_i) THEN frame
    ELSE ConsolidateColumns(
             SetColumn(frame, as_names_i[j],
                       ColumnOf(dataset_id, columns_i[j], dataset.order[columns_i[j]])),
             dataset_id, dataset, columns_i, as_names_i, j + 1)

RECURSIVE ConsolidateDatasets(_, _, _, _, _, _)
\* the outer loop over dataset_ids, from its i-th entry on
ConsolidateDatasets(frame, working, dataset_ids, columns, as_names, i) ==
    IF i > Len(dataset_ids) THEN frame
    ELSE ConsolidateDatasets(
             ConsolidateColumns(frame, dataset_ids[i], working[dataset_ids[i] + 1],
                                columns[i], as_names[i], 1),
             working, dataset_ids, columns, as_names, i + 1)

\* pd.DataFrame(consolidated_df): the columns of the dict in insertion order,
\* aligned on the sorted union of the indexes of its series
DataFrame(frame, working) ==
    [frame EXCEPT !.index =
        SortedSeq(UNION {Range(working[frame.source[k].of[2] + 1].index) :
                            k \in 1..Len(frame.source)})]

EmptyFrame == [index |-> <<>>, columns |-> <<>>, source |-> <<>>]

\* consolidate adding the columns to the table consolidated before
consolidateMerge(self, dataset_ids, columns, as_names) ==
    LET names == IF IsNone(as_names) THEN columns ELSE Get(as_names)
        n == Len(dataset_ids)
        before == IF data_Raises(self) THEN EmptyFrame ELSE data_(self)
    IN  IF \E i \in 1..n : dataset_ids[i] \notin 0..(Len(self.datasets) - 1)
        THEN Outcome(self, "IndexError", None)
        ELSE IF \E i \in 1..n : \E j \in 1..Len(columns[i]) :
                  columns[i][j] \notin Range(self.datasets[dataset_ids[i] + 1].columns)
        THEN Outcome(self, "KeyError", None)
        ELSE Outcome([self EXCEPT !.consolidated_data =
                         Some([ConsolidateDatasets(before, self.datasets,
                                                   dataset_ids, columns, names, 1)
                                  EXCEPT !.index = before.index])],
                     "ok", None)

\* consolidate(dataset_ids, columns, as_names): the table is built from an
\* empty dict, whatever was consolidated before
consolidate(self, dataset_ids, columns, as_names) ==
    LET names == IF IsNone(as_names) THEN columns ELSE Get(as_names)
        n == Len(dataset_ids)
    IN  IF \E i \in 1..n : dataset_ids[i] \notin 0..(Len(self.datasets) - 1)
        THEN Outcome(self, "IndexError", None)
        ELSE IF \E i \in 1..n : \E j \in 1..Len(columns[i]) :
                  columns[i][j] \notin Range(self.datasets[dataset_ids[i] + 1].columns)
        THEN Outcome(self, "KeyError", None)
        ELSE Outcome([self EXCEPT !.consolidated_data =
                         Some(DataFrame(ConsolidateDatasets(EmptyFrame, self.datasets,
                                                            dataset_ids, columns, names, 1),
                                        self.datasets))],
                     "ok", None)

----------------------------------------------------------------------------
(* TimeSeriesDataset.set_target *)

set_target(self, target_col) ==
    Outcome([self EXCEPT !.target = Some(target_col)], "ok", None)

----------------------------------------------------------------------------
(* TimeSeriesDataset.append *)

\* append that drops the split made of the table before the new column
appendDropsSplit(self, name, data) ==
    IF data_Raises(self) THEN Outcome(self, "NotInitialisedError", None)
    ELSE IF data.length # Len(data_(self).index) THEN Outcome(self, "ValueError", None)
    ELSE Outcome([self EXCEPT !.consolidated_data =
                                  Some(SetColumn(data_(self), name, SeriesOf(data))),
                              !.train_data = None,
                              !.forecast_data = None],
                 "ok", None)

\* data is a series [name, length]; data.values must have one value per row
append(self, name, data) ==
    IF data_Raises(self) THEN Outcome(self, "NotInitialisedError", None)
    ELSE IF data.length # Len(data_(self).index) THEN Outcome(self, "ValueError", None)
    ELSE Outcome([self EXCEPT !.consolidated_data =
                     Some(SetColumn(data_(self), name, SeriesOf(data)))],
                 "ok", None)

----------------------------------------------------------------------------
(* TimeSeriesDataset.split *)

\* the warnings split emits: the first train row is not dated train_start,
\* the last forecast row is not dated forecast_end
SplitWarnings(train, train_start, forecast, forecast_end) ==
    (IF train.index[1] # train_start THEN {"train"} ELSE {})
    \cup (IF forecast.index[Len(forecast.index)] # forecast_end THEN {"forecast"} ELSE {})

\* split with the train window open at split_date
splitExclusive(self, split_date, train_months, forecast_months) ==
    LET train_start == AddMonths(split_date, 0 - train_months)
        forecast_end == AddMonths(split_date, forecast_months)
        train == Rows(data_(self), LAMBDA d : d >= train_start /\ d < split_date)
        forecast == Rows(data_(self), LAMBDA d : d >= split_date /\ d <= forecast_end)
    IN  IF data_Raises(self) THEN Outcome(self, "NotInitialisedError", None)
        ELSE IF train.index = <<>> \/ forecast.index = <<>>
        THEN Outcome(self, "IndexError", None)
        ELSE Outcome([self EXCEPT !.forecast_date = Some(split_date),
                                  !.train_data = Some(train),
                                  !.forecast_data = Some(forecast)],
                     "ok", Some(SplitWarnings(train, train_start, forecast, forecast_end)))

\* split recording the split date before it reads the consolidated data
splitEarlyDate(self, split_date, train_months, forecast_months) ==
    LET dated == [self EXCEPT !.forecast_date = Some(split_date)]
        train_start == AddMonths(split_date, 0 - train_months)
        forecast_end == AddMonths(split_date, forecast_months)
        train == Rows(data_(self), LAMBDA d : d >= train_start /\ d <= split_date)
        forecast == Rows(data_(self), LAMBDA d : d > split_date /\ d <= forecast_end)
    IN  IF data_Raises(self) THEN Outcome(dated, "NotInitialisedError", None)
        ELSE IF train.index = <<>> \/ forecast.index = <<>>
        THEN Outcome(dated, "IndexError", None)
        ELSE Outcome([dated EXCEPT !.train_data = Some(train),
                                   !.forecast_data = Some(forecast)],
                     "ok", Some(SplitWarnings(train, train_start, forecast, forecast_end)))

\* split with both windows closed at split_date
splitOverlapping(self, split_date, train_months, forecast_months) ==
    LET train_start == AddMonths(split_date, 0 - train_months)
        forecast_end == AddMonths(split_date, forecast_months)
        train == Rows(data_(self), LAMBDA d : d >= train_start /\ d <= split_date)
        forecast == Rows(data_(self), LAMBDA d : d >= split_date /\ d <= forecast_end)
    IN  IF data_Raises(self) THEN Outcome(self, "NotInitialisedError", None)
        ELSE IF train.index = <<>> \/ forecast.index = <<>>
        THEN Outcome(self, "IndexError", None)
        ELSE Outcome([self EXCEPT !.forecast_date = Some(split_date),
                                  !.train_data = Some(train),
                                  !.forecast_data = Some(forecast)],
                     "ok", Some(SplitWarnings(train, train_start, forecast, forecast_end)))

split(self, split_date, train_months, forecast_months) ==
    LET train_start == AddMonths(split_date, 0 - train_months)
        forecast_end == AddMonths(split_date, forecast_months)
        train == Rows(data_(self), LAMBDA d : d >= train_start /\ d <= split_date)
        forecast == Rows(data_(self), LAMBDA d : d > split_date /\ d <= forecast_end)
    IN  IF data_Raises(self) THEN Outcome(self, "NotInitialisedError", None)
        ELSE IF train.index = <<>> \/ forecast.index = <<>>
        THEN Outcome(self, "IndexError", None)     \* index[0] / index[-1] of no rows
        ELSE Outcome([self EXCEPT !.forecast_date = Some(split_date),
                                  !.train_data = Some(train),
                                  !.forecast_data = Some(forecast)],
                     "ok", Some(SplitWarnings(train, train_start, forecast, forecast_end)))

----------------------------------------------------------------------------
(* TimeSeriesDataset.auto_diff.  The stationarity test is the library's   *)
(* and is a function of the column's values: a column's data has an order  *)
(* of integration, and adfuller reports a p-value > 0.05 exactly while the *)
(* column has been differenced fewer times than that.                      *)

\* adfuller(column)[1] > 0.05
NonStationary(source) == source.diffs < source.order

RECURSIVE DiffLoop(_)
\* while adfuller(column_data)[1] > 0.05: difference, refill the leading gap
DiffLoop(source) ==
    IF NonStationary(source) THEN DiffLoop([source EXCEPT !.diffs = @ + 1]) ELSE source

\* one column of the loop over the consolidated columns
DiffColumn(source, mask, force) ==
    IF (force \/ NonStationary(source)) /\ mask THEN DiffLoop(source) ELSE source

\* auto_diff without the comparison of the mask's length with the columns
auto_diffUnchecked(self, bool_mask, force, inplace) ==
    IF data_Raises(self) THEN Outcome(self, "NotInitialisedError", None)
    ELSE LET target_df ==
                 [data_(self) EXCEPT !.source =
                     [i \in 1..Len(data_(self).columns) |->
                         DiffColumn(data_(self).source[i],
                                    i <= Len(bool_mask) /\ bool_mask[i], force)]]
         IN  IF inplace
             THEN Outcome([self EXCEPT !.consolidated_data = Some(target_df)], "ok", None)
             ELSE Outcome(self, "ok", Some(target_df))

\* auto_diff that keeps the differenced table also when inplace is false
auto_diffAssigns(self, bool_mask, force, inplace) ==
    IF data_Raises(self) THEN Outcome(self, "NotInitialisedError", None)
    ELSE IF Len(bool_mask) # Len(data_(self).columns) THEN Outcome(self, "ValueError", None)
    ELSE LET target_df ==
                 [data_(self) EXCEPT !.source =
                     [i \in 1..Len(data_(self).columns) |->
                         DiffColumn(data_(self).source[i], bool_mask[i], force)]]
         IN  Outcome([self EXCEPT !.consolidated_data = Some(target_df)], "ok",
                     IF inplace THEN None ELSE Some(target_df))

auto_diff(self, bool_mask, force, inplace) ==
    IF data_Raises(self) THEN Outcome(self, "NotInitialisedError", None)
    ELSE IF Len(bool_mask) # Len(data_(self).columns) THEN Outcome(self, "ValueError", None)
    ELSE LET target_df ==
                 [data_(self) EXCEPT !.source =
                     [i \in 1..Len(data_(self).columns) |->
                         DiffColumn(data_(self).source[i], bool_mask[i], force)]]
         IN  IF inplace
             THEN Outcome([self EXCEPT !.consolidated_data = Some(target_df)], "ok", None)
             ELSE Outcome(self, "ok", Some(target_df))

----------------------------------------------------------------------------
(* ARIMAWrapper.exhaustive_search.  Building, fitting and forecasting an   *)
(* ARIMA model is the library's: a configuration's model either raises or  *)
(* yields in-sample and out-of-sample predictions, and a metric either     *)
(* raises or yields a value that the metric and the predictions determine. *)

\* SingleProgressBar(steps) and its update(): the step count exceeded is an exception
SingleProgressBar(steps) == [steps |-> steps, current_step |-> 0]
UpdateRaises(bar) == bar.current_step >= bar.steps
Update(bar) == [bar EXCEPT !.current_step = @ + 1]

\* steps_count = len(p_values) * len(d_values) * len(q_values)
StepsCount(args) == Len(args.p_values) * Len(args.d_values) * Len(args.q_values)

\* the order (p, d, q) of the n-th configuration (n from 0) of the nested
\* loops: q runs fastest, then d, then p
OrderAt(args, n) ==
    LET nq == Len(args.q_values)
        nd == Len(args.d_values)
    IN  <<args.p_values[(n \div (nd * nq)) + 1],
          args.d_values[((n \div nq) % nd) + 1],
          args.q_values[(n % nq) + 1]>>

\* full_pred.apply(lambda x: x < bounds[0] or x > bounds[1]).any()
OutOfBounds(full_pred, bounds) ==
    \E i \in 1..Len(full_pred) : full_pred[i] < bounds[1] \/ full_pred[i] > bounds[2]

\* metric(self.__train_target, insample_pred)
MetricValue(metric, insample_pred) == <<metric, insample_pred>>

\* the row of a passed model: its order, then one value per metric
ModelResults(order, metrics, insample_pred) ==
    <<order>> \o [m \in 1..Len(metrics) |-> MetricValue(metrics[m], insample_pred)]

\* the body of the try statement raises: the model (build, fit, predict,
\* forecast), the bounds check or a metric
TryRaises(args, outcome) ==
    \/ outcome.model = "raises"
    \/ /\ ~IsNone(args.bounds)
       /\ OutOfBounds(outcome.insample_pred \o outcome.outsample_fc, Get(args.bounds))
    \/ (Len(args.metrics) > 0 /\ outcome.metric = "raises")

\* one configuration with the exception handler missing: the exception leaves the sweep
IterationUncaught(count, args, order, outcome) ==
    IF TryRaises(args, outcome)
    THEN [count EXCEPT !.raised = TRUE]
    ELSE [count EXCEPT !.orders = Append(@, ModelResults(order, args.metrics,
                                                         outcome.insample_pred)),
                       !.passes = @ + 1]

\* one configuration with a handler that counts nothing
IterationUncounted(count, args, order, outcome) ==
    IF TryRaises(args, outcome)
    THEN count
    ELSE [count EXCEPT !.orders = Append(@, ModelResults(order, args.metrics,
                                                         outcome.insample_pred)),
                       !.passes = @ + 1]

\* one configuration with the bounds checked on the forecast only
IterationForecastBounds(count, args, order, outcome) ==
    IF \/ outcome.model = "raises"
       \/ (~IsNone(args.bounds) /\ OutOfBounds(outcome.outsample_fc, Get(args.bounds)))
       \/ (Len(args.metrics) > 0 /\ outcome.metric = "raises")
    THEN [count EXCEPT !.failures = @ + 1]
    ELSE [count EXCEPT !.orders = Append(@, ModelResults(order, args.metrics,
                                                         outcome.insample_pred)),
                       !.passes = @ + 1]

\* one configuration: the try statement and its handler, on the counters
\* [passes, failures, orders, raised]
\* the loop body with a failure that sticks: after a configuration has
\* failed, every later one is counted as failed
IterationSticky(count, args, order, outcome) ==
    IF TryRaises(args, outcome) \/ count.failures > 0
    THEN [count EXCEPT !.failures = @ + 1]
    ELSE [count EXCEPT !.orders = Append(@, ModelResults(order, args.metrics,
                                                         outcome.insample_pred)),
                       !.passes = @ + 1]

Iteration(count, args, order, outcome) ==
    IF TryRaises(args, outcome)
    THEN [count EXCEPT !.failures = @ + 1]
    ELSE [count EXCEPT !.orders = Append(@, ModelResults(order, args.metrics,
                                                         outcome.insample_pred)),
                       !.passes = @ + 1]

\* ARIMAWrapper(train, forecast, target): the target column and the other
\* columns of train, the columns of forecast without the target.  fits is
\* the library's part: what building, fitting and forecasting a model of each
\* order yields on these frames.
ARIMAWrapper(train, forecast, target_col, fits) ==
    [train_target |-> target_col,
     train_exog |-> SelectSeq(train, LAMBDA c : c # target_col),
     forecast_exog |-> SelectSeq(forecast, LAMBDA c : c # target_col),
     fits |-> fits]

\* ARIMA(self.__train_target, exog=self.__train_exog, order=order).fit() and
\* its predictions
FitOf(wrapper, order) == wrapper.fits[order]

RECURSIVE EvaluateAll(_, _, _, _)
\* the body of the loops run for a list of orders, one after the other
EvaluateAll(wrapper, args, todo, count) ==
    IF todo = <<>> THEN count
    ELSE EvaluateAll(wrapper, args, Tail(todo),
                     Iteration(count, args, Head(todo), FitOf(wrapper, Head(todo))))

InitSearch ==
    /\ pc = "idle"
    /\ sweep = [args |-> None, n |-> 0]
    /\ passes = 0
    /\ failures = 0
    /\ orders = <<>>
    /\ tracker = SingleProgressBar(0)
    /\ attempted = <<>>
    /\ fit = None

\* exhaustive_search(p_values, d_values, q_values, metrics, bounds) up to the loops
StartSearch(args) ==
    /\ pc = "idle"
    /\ pc' = "loop"
    /\ sweep' = [args |-> Some(args), n |-> 0]
    /\ tracker' = SingleProgressBar(StepsCount(args))
    /\ passes' = 0
    /\ failures' = 0
    /\ orders' = <<>>
    /\ UNCHANGED <<attempted, fit>>
    /\ UNCHANGED <<tsd_vars, lib_vars>>

\* one pass through the body of the innermost loop, then tracker.update()
Configuration(outcome) ==
    /\ pc = "loop"
    /\ sweep.n < StepsCount(Get(sweep.args))
    /\ LET args == Get(sweep.args)
           order == OrderAt(args, sweep.n)
           count == Iteration([passes |-> passes, failures |-> failures,
                               orders |-> orders, raised |-> FALSE],
                              args, order, outcome)
       IN  /\ attempted' = Append(attempted, order)
           /\ fit' = Some([order |-> order, outcome |-> outcome])
           /\ passes' = count.passes
           /\ failures' = count.failures
           /\ orders' = count.orders
           /\ IF count.raised \/ UpdateRaises(tracker)
              THEN pc' = "raised" /\ UNCHANGED <<tracker, sweep>>
              ELSE /\ pc' = "loop"
                   /\ tracker' = Update(tracker)
                   /\ sweep' = [sweep EXCEPT !.n = @ + 1]
    /\ UNCHANGED <<tsd_vars, lib_vars>>

\* the loops are over: print the status report and return the table of orders
Return ==
    /\ pc = "loop"
    /\ sweep.n = StepsCount(Get(sweep.args))
    /\ pc' = "done"
    /\ UNCHANGED <<sweep, passes, failures, orders, tracker, attempted, fit>>
    /\ UNCHANGED <<tsd_vars, lib_vars>>

----------------------------------------------------------------------------
(* PredictionStorage.  A keyword argument's value is [type, value]; a cache *)
(* holds the keyword arguments it was built from as attributes.             *)

\* isinstance(value, type): bool is a subclass of int
IsInstance(value, type) == value.type = type \/ (value.type = "bool" /\ type = "int")

\* PredictionStorage(max_caches)
PredictionStorage(max_caches) ==
    [max_caches |-> max_caches, storage |-> <<>>, cache_signature |-> None]

\* _Cache(**kwargs): setattr(self, key, value) for each keyword argument
Cache(kwargs) == kwargs

\* {key: type(value) for key, value in kwargs.items()}
SignatureOf(kwargs) == [key \in DOMAIN kwargs |-> kwargs[key].type]

\* if len(self.__storage) > self.__max_caches: self.__storage.pop(0)
Prune(self) ==
    IF Len(self.storage) > self.max_caches
    THEN [self EXCEPT !.storage = Tail(@)]
    ELSE self

history(self) == self.storage

latest_Raises(self) == self.storage = <<>>
latest(self) == self.storage[Len(self.storage)]

\* add_cache that prunes the newest cache, not the oldest
add_cachePrunesNewest(self, kwargs) ==
    LET pop(st) == IF Len(st.storage) > st.max_caches
                   THEN [st EXCEPT !.storage = SubSeq(@, 1, Len(@) - 1)]
                   ELSE st
    IN  IF IsNone(self.cache_signature)
        THEN IF DOMAIN kwargs = {}
             THEN Outcome(self, "ValueError", None)
             ELSE Outcome(pop([self EXCEPT !.storage = Append(@, Cache(kwargs)),
                                           !.cache_signature = Some(SignatureOf(kwargs))]),
                          "ok", None)
        ELSE LET signature == Get(self.cache_signature)
             IN  IF \E key \in DOMAIN kwargs :
                       key \notin DOMAIN signature \/ ~IsInstance(kwargs[key], signature[key])
                 THEN Outcome(self, "ValueError", None)
                 ELSE Outcome(pop([self EXCEPT !.storage = Append(@, Cache(kwargs))]), "ok", None)

\* add_cache(**kwargs)
add_cache(self, kwargs) ==
    IF IsNone(self.cache_signature)
    THEN IF DOMAIN kwargs = {}
         THEN Outcome(self, "ValueError", None)
         ELSE Outcome(Prune([self EXCEPT !.storage = Append(@, Cache(kwargs)),
                                         !.cache_signature = Some(SignatureOf(kwargs))]),
                      "ok", None)
    ELSE LET signature == Get(self.cache_signature)
         IN  IF \E key \in DOMAIN kwargs :
                   key \notin DOMAIN signature \/ ~IsInstance(kwargs[key], signature[key])
             THEN Outcome(self, "ValueError", None)
             ELSE Outcome(Prune([self EXCEPT !.storage = Append(@, Cache(kwargs))]), "ok", None)

InitStorage ==
    /\ prediction_storage = None
    /\ added = <<>>

----------------------------------------------------------------------------
(* MasterCalendar.  A date string "DD-MM-YYYY" is the triple of its numbers *)
(* in the order they are written.                                          *)

\* pd.to_datetime(string, dayfirst=True).to_pydatetime()
to_datetime(string) == MkDate(string[3], string[2], string[1])

\* MasterCalendar()
MasterCalendar == [min_date |-> DatetimeMax, max_date |-> DatetimeMin]

\* update_date_range keeping the later new_min and the earlier new_max
update_date_rangeNarrows(self, new_min, new_max) ==
    LET parsed_min == to_datetime(new_min)
        parsed_max == to_datetime(new_max)
    IN  [min_date |-> IF parsed_min > self.min_date THEN parsed_min ELSE self.min_date,
         max_date |-> IF parsed_max < self.max_date THEN parsed_max ELSE self.max_date]

\* update_date_range(new_min, new_max)
update_date_range(self, new_min, new_max) ==
    LET parsed_min == to_datetime(new_min)
        parsed_max == to_datetime(new_max)
    IN  [min_date |-> IF parsed_min < self.min_date THEN parsed_min ELSE self.min_date,
         max_date |-> IF parsed_max > self.max_date THEN parsed_max ELSE self.max_date]

InitCalendar ==
    /\ master_calendar = MasterCalendar
    /\ passed = [new_min |-> {}, new_max |-> {}]

----------------------------------------------------------------------------
(* ThreadSafeProgressBar and processor_loop.  The done section is the list *)
(* of the lengths of its segments, the to-be-done section the number of    *)
(* characters left in it.  update takes no lock: a thread may be preempted *)
(* between reading an attribute and assigning it.                          *)

\* bar_length: int = 150
BarLength == 150

\* ThreadSafeProgressBar(steps, bar_length)
ThreadSafeProgressBar(steps, bar_length) ==
    [steps |-> steps, bar_length |-> bar_length, current_step |-> 0,
     tbd_section |-> bar_length, done_section |-> <<>>]

\* math.ceil(self.__bar_length / self.__steps)
update_length(bar) == (bar.bar_length + bar.steps - 1) \div bar.steps

\* self.__done_section += [self.__characters[1] * update_length]: the list is
\* extended in place
ExtendDone(bar) == [bar EXCEPT !.done_section = Append(@, update_length(bar))]

\* tbd_section[:-update_length] of a list of n characters
SliceOff(n, length) ==
    IF length = 0 \/ length >= n THEN 0 ELSE n - length

\* a job that has not started
IdleJob ==
    [pc |-> "idle", sheet_names |-> None, processor |-> None, tracked |-> FALSE,
     tbd_section |-> 0, current_step |-> 0, ret |-> None]

\* what processor_loop returns: the processed first sheet, or the processed
\* sheets concatenated
Processed(sheet_names, processor) ==
    [sheets |-> IF IsNone(sheet_names) THEN <<0>> ELSE Get(sheet_names),
     processor |-> IF IsNone(processor) THEN "identity" ELSE Get(processor)]

\* processor_loop(filepath, sheet_names, processor, progress_tracker) up to
\* its return or its call of progress_tracker.update()
processor_loop(job, sheet_names, processor, tracked) ==
    LET called == [job EXCEPT !.sheet_names = sheet_names, !.processor = processor,
                              !.tracked = tracked]
        ret == Some(Processed(sheet_names, processor))
    IN  IF IsNone(sheet_names)
        THEN [called EXCEPT !.pc = "returned", !.ret = ret]
        ELSE IF tracked
        THEN [called EXCEPT !.pc = "extend"]
        ELSE [called EXCEPT !.pc = "returned", !.ret = ret]

InitBatch ==
    /\ jobs = [j \in 1..NumJobs |-> IdleJob]
    /\ progress_tracker = ThreadSafeProgressBar(NumJobs, BarLength)
    /\ update_calls = 0

----------------------------------------------------------------------------
(* Inputs *)

\* the tables passed to __init__, by position: the name of the datetime
\* column, the column names and the order of integration of the data columns
\* (the first table's column trends, the second's is stationary)
Schemas ==
    << [datetime_col |-> "date", columns |-> <<"date", "occ">>,
        order |-> [c \in {"occ"} |-> MaxDiffs]],
       [datetime_col |-> "day",  columns |-> <<"adr", "day">>,
        order |-> [c \in {"adr"} |-> 0]] >>

InputTable(i, dates) ==
    [dates |-> dates, columns |-> Schemas[i].columns, order |-> Schemas[i].order]

\* the sorted runs of consecutive dates of a calendar (a sorted sequence)
Runs(calendar) ==
    {SubSeq(calendar, a, b) : a \in 1..Len(calendar), b \in 1..Len(calendar)} \ {<<>>}

\* the lists of one or two tables whose rows are runs of the calendar
TableLists(calendar) ==
    {<<InputTable(1, r)>> : r \in Runs(calendar)}
    \cup {<<InputTable(1, r[1]), InputTable(2, r[2])>> : r \in Runs(calendar) \X Runs(calendar)}

DatetimeCols(tables) == [i \in 1..Len(tables) |-> Schemas[i].datetime_col]

\* the calendar of the year-window specification: the last NumYears years up
\* to the leap year 2020, with 1 March and 31 December of each year and
\* every 29 February
YearSpan == (2021 - NumYears)..2020
YearCalendar ==
    SortedSeq({d \in {MkDate(y, md[1], md[2]) : y \in YearSpan,
                                                md \in {<<2, 29>>, <<3, 1>>, <<12, 31>>}} :
               IsDate(d)})

RemovedYearsChoices(years) == {None} \cup {Some(<<y>>) : y \in years}

\* the datetime column names passed with a list of tables: one per table, the
\* last one missing, or one more than there are tables
DatetimeColsChoices(tables) ==
    {DatetimeCols(tables),
     SubSeq(DatetimeCols(tables), 1, Len(tables) - 1),
     Append(DatetimeCols(tables), "day")}

----------------------------------------------------------------------------
(* State machine *)

NoCall == [op |-> "none", args |-> <<>>, result |-> "ok", ret |-> None]
Call(op, args, result, ret) == [op |-> op, args |-> args, result |-> result, ret |-> ret]

InitNew ==
    /\ phase = "new"
    /\ caller_datasets = <<>>
    /\ initial_datasets = <<>>
    /\ datasets = <<>>
    /\ valid_years = <<>>
    /\ date_range = NoRange
    /\ consolidated_data = None
    /\ target = None
    /\ forecast_date = None
    /\ train_data = None
    /\ forecast_data = None
    /\ last = NoCall

InitSession == session = None

InitLib == InitStorage /\ InitCalendar /\ InitBatch /\ InitSession

Init == InitNew /\ InitSearch /\ InitLib

\* TimeSeriesDataset(tables, datetime_cols, removed_years)
Construct(tables, datetime_cols, removed_years) ==
    /\ phase = "new"
    /\ LET o == Init__(tables, datetime_cols, removed_years)
       IN  /\ last' = Call("__init__", <<tables, datetime_cols, removed_years>>, o.result, None)
           /\ caller_datasets' = o.callers
           /\ IF o.result = "ok"
              THEN /\ phase' = "ready"
                   /\ initial_datasets' = o.initial_datasets
                   /\ datasets' = o.datasets
                   /\ valid_years' = o.valid_years
                   /\ date_range' = o.date_range
              ELSE /\ phase' = "failed"
                   /\ UNCHANGED <<initial_datasets, datasets, valid_years, date_range>>
    /\ UNCHANGED <<consolidated_data, target, forecast_date, train_data, forecast_data>>
    /\ UNCHANGED <<search_vars, lib_vars>>

DataColumns(i) == SelectSeq(Schemas[i].columns, LAMBDA c : c # Schemas[i].datetime_col)

ColumnsChoices(i) == {None, Some(DataColumns(i))}

\* TSDataset.last_valid_year(dataset_id, columns)
LastValidYear ==
    /\ phase = "ready"
    /\ \E dataset_id \in 0..(Len(datasets) - 1) :
         \E columns \in ColumnsChoices(dataset_id + 1) :
           LET o == last_valid_year(initial_datasets, valid_years, date_range,
                                    dataset_id, columns)
               self == LYFields(initial_datasets, valid_years, date_range, dataset_id)
           IN  /\ last' = Call("last_valid_year", <<dataset_id, columns>>, o.result, o.ret)
               /\ initial_datasets' = self.initial_datasets
               /\ valid_years' = self.valid_years
               /\ date_range' = self.date_range
    /\ UNCHANGED <<phase, caller_datasets, datasets,
                   consolidated_data, target, forecast_date, train_data, forecast_data>>
    /\ UNCHANGED <<search_vars, lib_vars>>

ConstructYears ==
    /\ phase = "new"
    /\ \E tables \in TableLists(YearCalendar) :
         \E removed_years \in RemovedYearsChoices(YearSpan) :
           \E datetime_cols \in (IF IsNone(removed_years) THEN DatetimeColsChoices(tables)
                                  ELSE {DatetimeCols(tables)}) :
             Construct(tables, datetime_cols, removed_years)

NextYears == ConstructYears \/ LastValidYear

\* construction over tables spanning several years, then prior-year lookups
SpecYears == Init /\ [][NextYears]_vars

----------------------------------------------------------------------------
(* The dataset's life after construction: consolidate, set_target, append,  *)
(* split and auto_diff in any order                                         *)

Self ==
    [datasets |-> datasets, consolidated_data |-> consolidated_data, target |-> target,
     forecast_date |-> forecast_date, train_data |-> train_data,
     forecast_data |-> forecast_data]

\* the call op(args) with outcome o on the object
Method(op, args, o) ==
    /\ consolidated_data' = o.self.consolidated_data
    /\ target' = o.self.target
    /\ forecast_date' = o.self.forecast_date
    /\ train_data' = o.self.train_data
    /\ forecast_data' = o.self.forecast_data
    /\ last' = Call(op, args, o.result, o.ret)
    /\ UNCHANGED <<phase, caller_datasets, initial_datasets, datasets, valid_years, date_range>>
    /\ UNCHANGED <<search_vars, lib_vars>>

\* the calendar of the rows: the days around the ends of February, March and
\* April 2020
DayCalendar == <<20200228, 20200229, 20200331, 20200401, 20200430, 20200501>>

Drop(calendar, a, b) == SubSeq(calendar, 1 + a, Len(calendar) - b)

\* one table over the whole calendar, or two tables of which one lacks its
\* first and the other its last day
DayLists ==
    {<<InputTable(1, DayCalendar)>>,
     <<InputTable(1, Drop(DayCalendar, 1, 0)), InputTable(2, Drop(DayCalendar, 0, 1))>>}

ConstructDays ==
    /\ phase = "new"
    /\ \E tables \in DayLists : Construct(tables, DatetimeCols(tables), None)

IdLists == {ids \in {<<0>>, <<1>>, <<0, 1>>} : \A i \in 1..Len(ids) : ids[i] < Len(datasets)}

NewName(column) == IF column = "occ" THEN "y" ELSE "x"

\* the columns named as they are, renamed one by one, or all renamed "y"
AsNamesChoices(columns) ==
    {None,
     Some([i \in 1..Len(columns) |-> [j \in 1..Len(columns[i]) |-> NewName(columns[i][j])]]),
     Some([i \in 1..Len(columns) |-> [j \in 1..Len(columns[i]) |-> "y"]])}

\* every data column of the chosen tables
AllColumns(dataset_ids) == [i \in 1..Len(dataset_ids) |-> DataColumns(dataset_ids[i] + 1)]

\* the arguments of consolidate; the last names a column "rev" that no table has
ConsolidateArgs ==
    UNION {{<<ids, AllColumns(ids), as_names>> : as_names \in AsNamesChoices(AllColumns(ids))} :
              ids \in IdLists}
    \cup {<< <<0>>, << <<"rev">> >>, None >>}

Consolidate ==
    /\ phase = "ready"
    /\ \E args \in ConsolidateArgs :
         Method("consolidate", args, consolidate(Self, args[1], args[2], args[3]))

SetTarget ==
    /\ phase = "ready"
    /\ Method("set_target", <<"occ">>, set_target(Self, "occ"))

RowCount == IF IsNone(consolidated_data) THEN 0 ELSE Len(Get(consolidated_data).index)

\* a stationary series with one value per consolidated row, or one value more
AppendStep ==
    /\ phase = "ready"
    /\ \E length \in {RowCount, RowCount + 1} :
         LET data == [name |-> "s", length |-> length, order |-> 0]
         IN  Method("append", <<"extra", data>>, append(Self, "extra", data))

Split ==
    /\ phase = "ready"
    /\ \E split_date \in {20200228, 20200331} :
         \E train_months \in 0..MaxMonths :
           \E forecast_months \in 0..MaxMonths :
             Method("split", <<split_date, train_months, forecast_months>>,
                    split(Self, split_date, train_months, forecast_months))

ColumnCount == IF IsNone(consolidated_data) THEN 0 ELSE Len(Get(consolidated_data).columns)

\* a mask entry per consolidated column (all columns, none, or the first
\* only), or a mask one entry too long or one entry too short
MaskChoices ==
    {[i \in 1..ColumnCount |-> TRUE], [i \in 1..ColumnCount |-> FALSE],
     [i \in 1..ColumnCount |-> i = 1], [i \in 1..(ColumnCount + 1) |-> TRUE],
     [i \in 1..(ColumnCount - 1) |-> TRUE]}

AutoDiff ==
    /\ phase = "ready"
    /\ \E bool_mask \in MaskChoices :
         \E force \in BOOLEAN :
           \E inplace \in BOOLEAN :
             Method("auto_diff", <<bool_mask, force, inplace>>,
                    auto_diff(Self, bool_mask, force, inplace))

Next == ConstructDays \/ Consolidate \/ SetTarget \/ AppendStep \/ Split \/ AutoDiff

Spec == Init /\ [][Next]_vars

----------------------------------------------------------------------------
(* The dataset used through all of its interface: the lifecycle calls,     *)
(* apply, last_valid_year and the date_range accessor                      *)

\* two tables: the rows of the first begin before those of the second, so the
\* unified range leaves out a row of the first initial table
AccessLists ==
    {<<InputTable(1, SubSeq(DayCalendar, 3, 4)), InputTable(2, SubSeq(DayCalendar, 4, 4))>>}

ConstructAccess ==
    /\ phase = "new"
    /\ \E tables \in AccessLists : Construct(tables, DatetimeCols(tables), None)

\* TSDataset.apply(__callback, input_ids, use_initial, unify)
Apply ==
    /\ phase = "ready"
    /\ \E mutates \in BOOLEAN :
         \E input_ids \in {<<0, 1>>, <<1, 0>>} :
           \E use_initial \in BOOLEAN :
             \E unify \in BOOLEAN :
               LET o == apply(initial_datasets, datasets, date_range,
                              [mutates |-> mutates], input_ids, use_initial, unify)
               IN  /\ initial_datasets' = o.initial_datasets
                   /\ datasets' = o.datasets
                   /\ last' = Call("apply", <<mutates, input_ids, use_initial, unify>>,
                                   o.result, o.ret)
    /\ UNCHANGED <<phase, caller_datasets, valid_years, date_range,
                   consolidated_data, target, forecast_date, train_data, forecast_data>>
    /\ UNCHANGED <<search_vars, lib_vars>>

\* TSDataset.date_range.start_date = date: the accessor returns the dataset's
\* own _DateRange object, so the assignment is made on self.__date_range
AssignDateRange ==
    /\ phase = "ready"
    /\ \E date \in {DayCalendar[Len(DayCalendar)]} :
         /\ date_range' = [date_range EXCEPT !.start_date = date]
         /\ last' = Call("date_range", <<"start_date", date>>, "ok", None)
    /\ UNCHANGED <<phase, caller_datasets, initial_datasets, datasets, valid_years,
                   consolidated_data, target, forecast_date, train_data, forecast_data>>
    /\ UNCHANGED <<search_vars, lib_vars>>

NextAccess ==
    \/ ConstructAccess \/ Apply \/ AssignDateRange \/ LastValidYear
    \/ Consolidate \/ SetTarget \/ AppendStep \/ Split \/ AutoDiff

SpecAccess == Init /\ [][NextAccess]_vars

----------------------------------------------------------------------------
(* The model search: one call of exhaustive_search *)

\* the values 0 .. n-1 as a list
Prefix(n) == [i \in 1..n |-> i - 1]

\* predicted values: below, within and above the bounds (0, 100)
Predictions == {0 - 1, 50, 101}

SearchArgs ==
    {[p_values |-> Prefix(l[1]), d_values |-> Prefix(l[2]), q_values |-> Prefix(l[3]),
      metrics |-> metrics, bounds |-> bounds] :
        l \in {l \in (0..MaxConfigs) \X (1..MaxConfigs) \X (1..MaxConfigs) :
                  l[1] * l[2] * l[3] <= MaxConfigs},
        metrics \in {<<>>, <<"mae", "r2">>},
        bounds \in {None, Some(<<0, 100>>)}}

Outcomes ==
    {[model |-> "raises", insample_pred |-> <<>>, outsample_fc |-> <<>>, metric |-> "ok"]}
    \cup {[model |-> "ok", insample_pred |-> <<v>>, outsample_fc |-> <<w>>, metric |-> m] :
             v \in Predictions, w \in Predictions, m \in {"ok", "raises"}}

Search == pc = "idle" /\ \E args \in SearchArgs : StartSearch(args)

Fit == pc = "loop" /\ \E outcome \in Outcomes : Configuration(outcome)

NextSearch == Search \/ Fit \/ Return

SpecSearch == Init /\ [][NextSearch]_vars

----------------------------------------------------------------------------
(* A PredictionStorage and the calls of add_cache made on it *)

\* a keyword argument of a type; its value is the number of the cache
Value(type, serial) == [type |-> type, value |-> serial]

\* the keyword arguments of a call: none, name, name and age (age an int, a
\* bool or a str), name and colour, or age alone
KwargsChoices(serial) ==
    {<<>>,
     [key \in {"name"} |-> Value("str", serial)],
     [key \in {"name", "age"} |-> Value(IF key = "name" THEN "str" ELSE "int", serial)],
     [key \in {"name", "age"} |-> Value(IF key = "name" THEN "str" ELSE "bool", serial)],
     [key \in {"name", "age"} |-> Value("str", serial)],
     [key \in {"name", "colour"} |-> Value("str", serial)],
     [key \in {"age"} |-> Value("int", serial)]}

NewStorage ==
    /\ prediction_storage = None
    /\ \E max_caches \in 0..MaxCaches :
         /\ prediction_storage' = PredictionStorage(max_caches)
         /\ last' = Call("PredictionStorage", <<max_caches>>, "ok", None)
    /\ UNCHANGED added
    /\ UNCHANGED <<dataset_vars, search_vars, calendar_vars, batch_vars, session>>

AddCache ==
    /\ prediction_storage # None
    /\ Len(added) < MaxAdds
    /\ \E kwargs \in KwargsChoices(Len(added) + 1) :
         LET o == add_cache(prediction_storage, kwargs)
         IN  /\ prediction_storage' = o.self
             /\ added' = IF o.result = "ok" THEN Append(added, Cache(kwargs)) ELSE added
             /\ last' = Call("add_cache", <<kwargs>>, o.result, None)
    /\ UNCHANGED <<dataset_vars, search_vars, calendar_vars, batch_vars, session>>

NextStorage == NewStorage \/ AddCache

SpecStorage == Init /\ [][NextStorage]_vars

----------------------------------------------------------------------------
(* A MasterCalendar and the calls of update_date_range made on it *)

\* the date strings passed: "01-03-2020", "02-01-2020", "31-12-2019" and
\* "15-06-2021"
DateStrings == {<<1, 3, 2020>>, <<2, 1, 2020>>, <<31, 12, 2019>>, <<15, 6, 2021>>}

UpdateDateRange ==
    /\ \E new_min \in DateStrings :
         \E new_max \in DateStrings :
           /\ master_calendar' = update_date_range(master_calendar, new_min, new_max)
           /\ passed' = [new_min |-> passed.new_min \cup {new_min},
                         new_max |-> passed.new_max \cup {new_max}]
           /\ last' = Call("update_date_range", <<new_min, new_max>>, "ok", None)
    /\ UNCHANGED <<dataset_vars, search_vars, storage_vars, batch_vars, session>>

NextCalendar == UpdateDateRange

SpecCalendar == Init /\ [][NextCalendar]_vars

----------------------------------------------------------------------------
(* A batch: Parallel(backend='threading') runs one processor_loop job per  *)
(* file, the jobs sharing one ThreadSafeProgressBar of as many steps as     *)
(* there are files                                                         *)

BatchFrame == UNCHANGED <<tsd_vars, search_vars, storage_vars, calendar_vars, session>>

\* a thread starts the job of a file
StartJob(j) ==
    /\ jobs[j].pc = "idle"
    /\ \E sheet_names \in {None, Some(<<"a", "b">>)} :
         \E processor \in {None, Some("clean")} :
           \E tracked \in BOOLEAN :
             LET job == processor_loop(jobs[j], sheet_names, processor, tracked)
             IN  /\ jobs' = [jobs EXCEPT ![j] = job]
                 /\ update_calls' = IF job.pc = "extend" THEN update_calls + 1
                                    ELSE update_calls
    /\ UNCHANGED progress_tracker
    /\ BatchFrame

\* update(): the done section gets its segment
Extend(j) ==
    /\ jobs[j].pc = "extend"
    /\ progress_tracker' = ExtendDone(progress_tracker)
    /\ jobs' = [jobs EXCEPT ![j].pc = "tbd_load"]
    /\ UNCHANGED update_calls
    /\ BatchFrame

\* update(): self.__tbd_section is read
TbdLoad(j) ==
    /\ jobs[j].pc = "tbd_load"
    /\ jobs' = [jobs EXCEPT ![j].pc = "tbd_store",
                            ![j].tbd_section = progress_tracker.tbd_section]
    /\ UNCHANGED <<progress_tracker, update_calls>>
    /\ BatchFrame

\* update(): the slice of what was read is assigned to self.__tbd_section
TbdStore(j) ==
    /\ jobs[j].pc = "tbd_store"
    /\ progress_tracker' =
          [progress_tracker EXCEPT !.tbd_section =
              SliceOff(jobs[j].tbd_section, update_length(progress_tracker))]
    /\ jobs' = [jobs EXCEPT ![j].pc = "step_load"]
    /\ UNCHANGED update_calls
    /\ BatchFrame

\* update(): self.__current_step is read
StepLoad(j) ==
    /\ jobs[j].pc = "step_load"
    /\ jobs' = [jobs EXCEPT ![j].pc = "step_store",
                            ![j].current_step = progress_tracker.current_step]
    /\ UNCHANGED <<progress_tracker, update_calls>>
    /\ BatchFrame

\* update(): what was read plus one is assigned to self.__current_step;
\* update returns, and processor_loop returns the data
StepStore(j) ==
    /\ jobs[j].pc = "step_store"
    /\ progress_tracker' =
          [progress_tracker EXCEPT !.current_step = jobs[j].current_step + 1]
    /\ jobs' = [jobs EXCEPT ![j].pc = "returned",
                            ![j].ret = Some(Processed(jobs[j].sheet_names, jobs[j].processor))]
    /\ UNCHANGED update_calls
    /\ BatchFrame

NextBatch ==
    \E j \in 1..NumJobs :
       StartJob(j) \/ Extend(j) \/ TbdLoad(j) \/ TbdStore(j) \/ StepLoad(j) \/ StepStore(j)

SpecBatch == Init /\ [][NextBatch]_vars

----------------------------------------------------------------------------
(* An ARIMAWrapper and sweeps over lists of values in any order *)

\* the orders a sweep of this specification can go through
SessionOrders == {0, 1} \X {0} \X {0, 1}

\* what a model yields: an exception, predictions within the bounds
\* (0, 100), or a forecast above them
SessionFits ==
    {[model |-> "raises", insample_pred |-> <<>>, outsample_fc |-> <<>>, metric |-> "ok"],
     [model |-> "ok", insample_pred |-> <<50>>, outsample_fc |-> <<50>>, metric |-> "ok"],
     [model |-> "ok", insample_pred |-> <<50>>, outsample_fc |-> <<101>>, metric |-> "ok"]}

\* the lists of values, in rising and in falling order
SessionLists == {<<0>>, <<0, 1>>, <<1, 0>>}

SessionArgs ==
    {[p_values |-> p_values, d_values |-> <<0>>, q_values |-> q_values,
      metrics |-> metrics, bounds |-> bounds] :
        p_values \in SessionLists, q_values \in SessionLists,
        metrics \in {<<>>, <<"mae", "r2">>},
        bounds \in {None, Some(<<0, 100>>)}}

\* ARIMAWrapper(train, forecast, target), the forecast frame with or without
\* the target column
NewSession ==
    /\ session = None
    /\ \E forecast \in {<<"occ", "adr">>, <<"adr">>} :
         \E fits \in [SessionOrders -> SessionFits] :
           session' = Some(ARIMAWrapper(<<"occ", "adr">>, forecast, "occ", fits))
    /\ UNCHANGED <<tsd_vars, search_vars, storage_vars, calendar_vars, batch_vars>>

SearchSession ==
    /\ session # None
    /\ pc = "idle"
    /\ \E args \in SessionArgs : StartSearch(args)

FitSession ==
    /\ session # None
    /\ pc = "loop"
    /\ sweep.n < StepsCount(Get(sweep.args))
    /\ Configuration(FitOf(Get(session), OrderAt(Get(sweep.args), sweep.n)))

NextSession == NewSession \/ SearchSession \/ FitSession \/ Return

SpecSession == Init /\ [][NextSession]_vars

----------------------------------------------------------------------------
(* Properties *)

FirstDate(data) == data.index[1]
LastDate(data) == data.index[Len(data.index)]

\* C1: once constructed, the unified date_range starts at the latest of the
\* tables' first dates and ends at the earliest of their last dates (the
\* intersection of the spans, not their union), and no working table has a
\* row dated outside [date_range.start_date, date_range.end_date].  The tables
\* are the ones the unification scans (indexed, excluded years removed); with
\* no excluded years they are the caller's tables.
C1_UnifiedRangeIsIntersection ==
    phase = "ready" =>
        LET n == Len(initial_datasets)
            firsts == {FirstDate(initial_datasets[i]) : i \in 1..n}
            lasts == {LastDate(initial_datasets[i]) : i \in 1..n}
        IN  /\ Len(datasets) = n
            /\ date_range.start_date \in firsts
            /\ \A f \in firsts : f <= date_range.start_date
            /\ date_range.end_date \in lasts
            /\ \A l \in lasts : date_range.end_date <= l
            /\ \A i \in 1..n : \A d \in Range(datasets[i].index) :
                 date_range.start_date <= d /\ d <= date_range.end_date
            /\ (last.op = "__init__" /\ IsNone(last.args[3])) =>
                 /\ firsts = {last.args[1][i].dates[1] : i \in 1..n}
                 /\ lasts = {last.args[1][i].dates[Len(last.args[1][i].dates)] : i \in 1..n}

\* two tables whose spans overlap only partly: the range is cut at both ends
\* and both working tables lost rows
C1_Witness ==
    /\ phase = "ready"
    /\ Len(datasets) = 2
    /\ date_range.start_date < date_range.end_date
    /\ FirstDate(initial_datasets[1]) < date_range.start_date
    /\ LastDate(initial_datasets[2]) > date_range.end_date
    /\ \A i \in 1..2 : Len(datasets[i].index) < Len(initial_datasets[i].index)

\* the numbers k >= 1 of years back for which both shifted years are valid
\* years of the dataset
ValidBack(dataset_id) ==
    {k \in {Year(date_range.start_date) - y : y \in Range(valid_years[dataset_id + 1])} :
        /\ k >= 1
        /\ (Year(date_range.end_date) - k) \in Range(valid_years[dataset_id + 1])}

NearestBack(dataset_id) ==
    CHOOSE k \in ValidBack(dataset_id) : \A j \in ValidBack(dataset_id) : k <= j

\* C7: last_valid_year(dataset_id) returns the rows of the initial table dated
\* within the unified range shifted back k years, k being the smallest k >= 1
\* for which start year - k and end year - k are both valid years of the dataset
C7_ReturnsNearestValidYear ==
    (last.op = "last_valid_year" /\ ValidBack(last.args[1]) # {}) =>
        LET k == NearestBack(last.args[1])
            data == initial_datasets[last.args[1] + 1]
            lo == ReplaceYear(date_range.start_date, Year(date_range.start_date) - k)
            hi == ReplaceYear(date_range.end_date, Year(date_range.end_date) - k)
        IN  /\ last.result = "ok"
            /\ Get(last.ret).index = Between(data, lo, hi).index

\* C8: last_valid_year fails with "no valid prior year" exactly when there is
\* no k >= 1 for which start year - k and end year - k are both valid years
C8_FailsIffNoValidPair ==
    last.op = "last_valid_year" =>
        (last.result = "Exception" <=> ValidBack(last.args[1]) = {})

\* C9: set_target before any consolidate fails with NotInitialisedError and
\* records no target
C9_SetTargetNeedsConsolidate ==
    (last.op = "set_target" /\ IsNone(consolidated_data)) =>
        (last.result = "NotInitialisedError" /\ IsNone(target))

Called(op) == last'.op = op /\ last'.result = "ok"

\* the day after a date
NextDay(date) ==
    IF Day(date) < DaysInMonth(Year(date), Month(date)) THEN date + 1
    ELSE IF Month(date) < 12 THEN MkDate(Year(date), Month(date) + 1, 1)
    ELSE MkDate(Year(date) + 1, 1, 1)

\* the rows of a table dated within a set of dates, as a table
Within(data, Dates(_)) ==
    [data EXCEPT !.index = SortedSeq({d \in Range(data.index) : Dates(d)})]

\* C2: after a successful split(D, train_months, forecast_months), train_data
\* is exactly the consolidated rows dated in [D - train_months, D] and
\* forecast_data exactly those dated in (D, D + forecast_months]: a row dated
\* D is in train_data and never in forecast_data, a row dated D + 1 day is in
\* forecast_data
C2_SplitWindows ==
    (last.op = "split" /\ last.result = "ok") =>
        LET D == last.args[1]
            lo == AddMonths(D, 0 - last.args[2])
            hi == AddMonths(D, last.args[3])
            data == Get(consolidated_data)
        IN  /\ forecast_date = Some(D)
            /\ train_data = Some(Within(data, LAMBDA d : lo <= d /\ d <= D))
            /\ forecast_data = Some(Within(data, LAMBDA d : D < d /\ d <= hi))
            /\ D \in Range(data.index) => D \in Range(Get(train_data).index)
            /\ D \notin Range(Get(forecast_data).index)
            /\ NextDay(D) \in Range(data.index) => NextDay(D) \in Range(Get(forecast_data).index)

\* a split on a date D that is a row, with the row of the next day present,
\* and consolidated rows before the train window and after the forecast window
C2_Witness ==
    /\ last.op = "split" /\ last.result = "ok"
    /\ last.args[1] \in Range(Get(train_data).index)
    /\ NextDay(last.args[1]) \in Range(Get(forecast_data).index)
    /\ Get(consolidated_data).index[1] < Get(train_data).index[1]
    /\ LastDate(Get(consolidated_data)) > LastDate(Get(forecast_data))

\* the names the call consolidate(dataset_ids, columns, as_names) gives its columns
NamesOfCall(args) ==
    LET names == IF IsNone(args[3]) THEN args[2] ELSE Get(args[3])
    IN  UNION {Range(names[i]) : i \in 1..Len(names)}

ColumnNames(frame) == IF IsNone(frame) THEN {} ELSE Range(Get(frame).columns)

\* C3: consolidate is a rebuild, not a merge.  A successful consolidate leaves
\* exactly the columns its call names, each holding a column of a working
\* table (nothing of an earlier consolidate or append survives); an append
\* adds its one column; every other call leaves the columns as they are.  So
\* the columns are always those of the most recent consolidate plus those
\* appended after it.
C3_ConsolidateRebuilds ==
    [][/\ Called("consolidate") =>
            /\ ColumnNames(consolidated_data') = NamesOfCall(last'.args)
            /\ \A k \in 1..Len(Get(consolidated_data').source) :
                 LET src == Get(consolidated_data').source[k]
                 IN  src.of[1] = "dataset" /\ src.diffs = 0
       /\ Called("append") =>
            ColumnNames(consolidated_data') = ColumnNames(consolidated_data) \cup {last'.args[1]}
       /\ ~(Called("consolidate") \/ Called("append")) =>
            ColumnNames(consolidated_data') = ColumnNames(consolidated_data)
      ]_vars

\* a consolidate made after a split of a table that had other columns, among
\* them an appended one: the columns of the train data are gone
C3_Witness ==
    /\ last.op = "consolidate" /\ last.result = "ok"
    /\ ~IsNone(train_data)
    /\ "extra" \in Range(Get(train_data).columns)
    /\ Range(Get(train_data).columns) \cap ColumnNames(consolidated_data) = {}

\* C10: append, split and auto_diff, called when nothing has been
\* consolidated, fail with NotInitialisedError and leave consolidated,
\* train_data, forecast_data and the split date unset
C10_NotReadyBeforeConsolidate ==
    [][(IsNone(consolidated_data) /\ last'.op \in {"append", "split", "auto_diff"}) =>
          /\ last'.result = "NotInitialisedError"
          /\ IsNone(consolidated_data') /\ IsNone(train_data')
          /\ IsNone(forecast_data') /\ IsNone(forecast_date')
      ]_vars

\* split called on a dataset on which nothing has been consolidated
C10_Witness ==
    /\ phase = "ready"
    /\ last.op = "split" /\ last.result = "NotInitialisedError"
    /\ IsNone(consolidated_data)

\* the orders of the Cartesian product of the three lists of a sweep
Product(args) == Range(args.p_values) \X Range(args.d_values) \X Range(args.q_values)

\* C4: the sweep attempts every (p, d, q) of the Cartesian product of
\* p_values, d_values and q_values exactly once, and when it returns
\* passes + failures = len(p_values) * len(d_values) * len(q_values), whatever
\* the fits did; on the way every configuration gone through is counted once
C4_SweepIsComplete ==
    /\ pc \in {"loop", "done"} =>
         /\ passes + failures = Len(attempted)
         /\ Len(orders) = passes
         /\ \A a, b \in 1..Len(attempted) : attempted[a] = attempted[b] => a = b
         /\ Range(attempted) \subseteq Product(Get(sweep.args))
    /\ pc = "done" =>
         /\ Range(attempted) = Product(Get(sweep.args))
         /\ passes + failures
              = Len(Get(sweep.args).p_values) * Len(Get(sweep.args).d_values)
                  * Len(Get(sweep.args).q_values)

\* the sweep of p_values = [0, 1], d_values = [0], q_values = [0, 1] has
\* returned, with passed and failed configurations
C4_Witness ==
    /\ pc = "done"
    /\ Get(sweep.args).p_values = <<0, 1>>
    /\ Get(sweep.args).d_values = <<0>>
    /\ Get(sweep.args).q_values = <<0, 1>>
    /\ passes >= 1 /\ failures >= 1

\* a step of the sweep that goes through one configuration
FitStep == Len(attempted') = Len(attempted) + 1

AllWithin(values, bounds) ==
    \A i \in 1..Len(values) : bounds[1] <= values[i] /\ values[i] <= bounds[2]

\* C5: with bounds supplied, a configuration whose fit converged but with an
\* in-sample or out-of-sample predicted value outside [low, high] is counted
\* in failures and gets no row; one whose values all lie inside and whose
\* metrics succeed is counted in passes and gets exactly one row; rows are
\* never removed
C5_BoundsDecidePassOrFail ==
    [][(FitStep /\ ~IsNone(Get(sweep.args).bounds)
           /\ Get(fit').outcome.model = "ok") =>
          LET o == Get(fit').outcome
              bounds == Get(Get(sweep.args).bounds)
          IN  /\ ~AllWithin(o.insample_pred \o o.outsample_fc, bounds) =>
                   /\ failures' = failures + 1 /\ passes' = passes
                   /\ orders' = orders
              /\ (AllWithin(o.insample_pred \o o.outsample_fc, bounds)
                    /\ (o.metric = "ok" \/ Get(sweep.args).metrics = <<>>)) =>
                   /\ passes' = passes + 1 /\ failures' = failures
                   /\ Len(orders') = Len(orders) + 1
                   /\ SubSeq(orders', 1, Len(orders)) = orders
                   /\ orders'[Len(orders')][1] = Get(fit').order
      ]_vars

\* a sweep with bounds has returned; its last configuration converged with an
\* in-sample value above the bounds and a forecast within them, and an
\* earlier one passed
C5_Witness ==
    /\ pc = "done"
    /\ ~IsNone(Get(sweep.args).bounds)
    /\ ~IsNone(fit)
    /\ Get(fit).outcome.model = "ok"
    /\ Get(fit).outcome.insample_pred = <<101>>
    /\ Get(fit).outcome.outsample_fc = <<50>>
    /\ passes >= 1 /\ failures >= 1

\* C6: an exception raised while building, fitting or forecasting one
\* configuration never aborts the sweep: it only increments failures, the
\* rows recorded so far are kept, the sweep goes on with the next
\* configuration and returns only after all of them
C6_FailureDoesNotAbort ==
    [][/\ (FitStep /\ Get(fit').outcome.model = "raises") =>
            /\ pc' = "loop"
            /\ failures' = failures + 1 /\ passes' = passes
            /\ orders' = orders
            /\ sweep'.n = sweep.n + 1
       /\ pc' # "raised"
       /\ pc' = "done" => Len(attempted') = StepsCount(Get(sweep'.args))
      ]_vars

\* a sweep of three configurations without bounds or metrics has returned:
\* the first and the third passed and have their rows, the second raised
C6_Witness ==
    /\ pc = "done"
    /\ IsNone(Get(sweep.args).bounds) /\ Get(sweep.args).metrics = <<>>
    /\ Len(attempted) = 3
    /\ failures = 1
    /\ Len(orders) = 2
    /\ orders[1][1] = attempted[1] /\ orders[2][1] = attempted[3]

\* C11: split never fails for lack of history or of future rows: on a
\* consolidated table it completes for every split_date, train_months and
\* forecast_months, also when the train or the forecast window holds no row,
\* and sets train_data, forecast_data and the split date
C11_SplitNeverRaises ==
    (last.op = "split" /\ ~IsNone(consolidated_data)) =>
        /\ last.result = "ok"
        /\ forecast_date = Some(last.args[1])
        /\ ~IsNone(train_data) /\ ~IsNone(forecast_data)

\* C12: constructing a dataset with a list of datetime columns shorter or
\* longer than the list of tables fails, and no dataset object is produced
C12_ArityMismatchFails ==
    (last.op = "__init__" /\ Len(last.args[1]) # Len(last.args[2])) =>
        (last.result # "ok" /\ phase = "failed")

\* C13: auto_diff called with a mask that has more or fewer entries than the
\* consolidated table has columns fails with ValueError, returns nothing and
\* leaves the consolidated table as it was, with inplace true and false
C13_MaskLengthChecked ==
    [][(/\ last'.op = "auto_diff"
        /\ ~IsNone(consolidated_data)
        /\ Len(last'.args[1]) # Len(Get(consolidated_data).columns)) =>
          /\ last'.result = "ValueError"
          /\ IsNone(last'.ret)
          /\ consolidated_data' = consolidated_data
      ]_vars

\* auto_diff in place, forced, with a mask one entry short, on a table with a
\* column that does not pass the stationarity test: the call failed and the
\* column is as it was
C13_Witness ==
    /\ last.op = "auto_diff" /\ last.result = "ValueError"
    /\ last.args[2] /\ last.args[3]
    /\ Len(last.args[1]) = Len(Get(consolidated_data).columns) - 1
    /\ \E k \in 1..Len(Get(consolidated_data).source) :
         /\ NonStationary(Get(consolidated_data).source[k])
         /\ Get(consolidated_data).source[k].diffs = 0

\* the table a successful auto_diff produced: the consolidated table when in
\* place, the table returned otherwise
Differenced == IF last'.args[3] THEN Get(consolidated_data') ELSE Get(last'.ret)

\* C14: auto_diff with force true differences every column flagged in the
\* mask at least once, also a column that passes the stationarity test
\* already; with force false a flagged column that passes the test is left
\* as it is
C14_ForceDifferences ==
    [][Called("auto_diff") =>
          \A i \in 1..Len(Get(consolidated_data).columns) :
             last'.args[1][i] =>
                LET before == Get(consolidated_data).source[i]
                    after == Differenced.source[i]
                IN  /\ last'.args[2] => after.diffs >= before.diffs + 1
                    /\ (~last'.args[2] /\ ~NonStationary(before)) => after = before
      ]_vars

\* C16: the tables the caller passed to the constructor are never modified:
\* when __init__ returns or raises they are as they were passed, and no later
\* call (consolidate, set_target, append, split, auto_diff in place or not,
\* last_valid_year, apply with a callback that changes the tables it is
\* given, a write through the date_range accessor) changes them
C16_CallerTablesUntouched ==
    [][/\ last'.op = "__init__" => caller_datasets' = last'.args[1]
       /\ phase # "new" => caller_datasets' = caller_datasets
      ]_vars

\* apply has run a callback that set a column on the initial and on the
\* working tables, the consolidated table has been differenced in place, and
\* the caller's tables still have their datetime column and no other column
\* than they were passed with
C16_Witness ==
    /\ phase = "ready"
    /\ \A i \in 1..Len(caller_datasets) :
         /\ Schemas[i].datetime_col \in Range(caller_datasets[i].columns)
         /\ "flag" \notin Range(caller_datasets[i].columns)
         /\ "flag" \in Range(initial_datasets[i].columns)
         /\ "flag" \in Range(datasets[i].columns)
    /\ ~IsNone(consolidated_data)
    /\ \E k \in 1..Len(Get(consolidated_data).source) :
         Get(consolidated_data).source[k].diffs > 0

\* C17: last_valid_year is read-only and repeatable: the call changes none
\* of the initial tables, the working tables, the valid years, the date
\* range, the consolidated table, train_data and forecast_data; the same call
\* made again on the dataset as the call left it has the same outcome and
\* returns the same rows, and so has a call that follows one with the same
\* dataset_id and columns
C17_LastValidYearReadOnly ==
    [][last'.op = "last_valid_year" =>
          /\ initial_datasets' = initial_datasets
          /\ datasets' = datasets
          /\ valid_years' = valid_years
          /\ date_range' = date_range
          /\ consolidated_data' = consolidated_data
          /\ train_data' = train_data
          /\ forecast_data' = forecast_data
          /\ LET again == last_valid_year(initial_datasets', valid_years', date_range',
                                          last'.args[1], last'.args[2])
             IN  again.result = last'.result /\ again.ret = last'.ret
          /\ (last.op = "last_valid_year" /\ last.args = last'.args) =>
                (last'.result = last.result /\ last'.ret = last.ret)
      ]_vars

\* last_valid_year has returned rows of a dataset that has several valid
\* years
C17_Witness ==
    /\ last.op = "last_valid_year" /\ last.result = "ok"
    /\ Get(last.ret).index # <<>>
    /\ Len(valid_years[last.args[1] + 1]) >= 2

C19_RangeImmutable ==
    [][phase = "ready" => date_range' = date_range]_vars

\* C20: apply hands the callback the initial tables when use_initial is true
\* and the working tables otherwise, in the order of input_ids (the callback
\* returns the first table it is given); with unify true it returns exactly
\* the rows of the callback's output dated within
\* [date_range.start_date, date_range.end_date], with unify false the
\* callback's output as it is
C20_ApplyUnifies ==
    (last.op = "apply" /\ last.result = "ok") =>
        LET input_ids == last.args[2]
            datasets_used == IF last.args[3] THEN initial_datasets ELSE datasets
            output == datasets_used[input_ids[1] + 1]
        IN  /\ last.args[4] =>
                 /\ \A d \in Range(Get(last.ret).index) :
                      date_range.start_date <= d /\ d <= date_range.end_date
                 /\ Get(last.ret) =
                      Within(output, LAMBDA d : date_range.start_date <= d
                                                  /\ d <= date_range.end_date)
            /\ ~last.args[4] => Get(last.ret) = output

\* apply on the initial tables with unify true: the callback returned a table
\* with a row dated outside the range, and apply returned the other rows
C20_Witness ==
    /\ last.op = "apply" /\ last.result = "ok"
    /\ last.args[3] /\ last.args[4]
    /\ Get(last.ret).index # <<>>
    /\ \E d \in Range(initial_datasets[last.args[2][1] + 1].index) :
         d < date_range.start_date /\ d \notin Range(Get(last.ret).index)

\* C24: auto_diff with inplace false returns a new table and leaves the
\* consolidated table as it was; with inplace true it returns nothing and the
\* consolidated table becomes the differenced table, the one the call returns
\* with inplace false.  In both cases the differenced table has the rows and
\* the columns of the table before, a column whose mask entry is false has
\* the values it had, a column whose mask entry is true holds the same data
\* differenced no fewer times, and train_data and forecast_data are unchanged.
C24_AutoDiffFrame ==
    [][Called("auto_diff") =>
          LET before == Get(consolidated_data)
              bool_mask == last'.args[1]
              inplace == last'.args[3]
          IN  /\ ~inplace => (consolidated_data' = consolidated_data /\ ~IsNone(last'.ret))
              /\ inplace =>
                    /\ IsNone(last'.ret)
                    /\ consolidated_data' = auto_diff(Self, bool_mask, last'.args[2], FALSE).ret
              /\ Differenced.index = before.index
              /\ Differenced.columns = before.columns
              /\ \A i \in 1..Len(before.columns) :
                    LET was == before.source[i]
                        is == Differenced.source[i]
                    IN  /\ ~bool_mask[i] => is = was
                        /\ is.of = was.of /\ is.order = was.order /\ is.diffs >= was.diffs
              /\ train_data' = train_data
              /\ forecast_data' = forecast_data
      ]_vars

\* auto_diff with inplace false, after a split, has returned a table with its
\* first column differenced and a column that the mask leaves out, and the
\* consolidated table is not differenced
C24_Witness ==
    /\ last.op = "auto_diff" /\ last.result = "ok"
    /\ ~last.args[3]
    /\ ~IsNone(train_data) /\ ~IsNone(consolidated_data)
    /\ Get(last.ret).source[1].diffs > 0
    /\ Get(consolidated_data).source[1].diffs = 0
    /\ \E i \in 2..Len(last.args[1]) :
         ~last.args[1][i] /\ Get(last.ret).source[i] = Get(consolidated_data).source[i]

\* C29: after a successful split(D, train_months, forecast_months) no date
\* is a row of both train_data and forecast_data, every row of train_data is
\* dated <= D, every row of forecast_data is dated > D (so every train row
\* precedes every forecast row), and every consolidated row dated within
\* [D - train_months, D + forecast_months] is a row of exactly one of the two
C29_SplitPartitions ==
    (last.op = "split" /\ last.result = "ok") =>
        LET D == last.args[1]
            lo == AddMonths(D, 0 - last.args[2])
            hi == AddMonths(D, last.args[3])
            train == Range(Get(train_data).index)
            forecast == Range(Get(forecast_data).index)
        IN  /\ train \cap forecast = {}
            /\ \A d \in train : d <= D
            /\ \A d \in forecast : d > D
            /\ \A a \in train : \A b \in forecast : a < b
            /\ \A d \in Range(Get(consolidated_data).index) :
                 (lo <= d /\ d <= hi) => ((d \in train) # (d \in forecast))

\* a split on the date of a row with a month either side: the train data has
\* several rows, the last of them dated the split date, and the forecast data
\* has several rows
C29_Witness ==
    /\ last.op = "split" /\ last.result = "ok"
    /\ last.args[2] > 0 /\ last.args[3] > 0
    /\ Len(Get(train_data).index) >= 2
    /\ Len(Get(forecast_data).index) >= 2
    /\ LastDate(Get(train_data)) = last.args[1]

\* C30: train_data, forecast_data and the split date change only through a
\* successful split: consolidate, append, set_target and auto_diff (in place
\* or not) leave them as the last successful split set them, with the rows
\* and columns of the table consolidated then, and a split that fails leaves
\* them as they were
C30_SplitOnlyChangesSplit ==
    [][(phase = "ready" /\ ~Called("split")) =>
          /\ train_data' = train_data
          /\ forecast_data' = forecast_data
          /\ forecast_date' = forecast_date
      ]_vars

\* after a successful split a column was appended and a later split failed:
\* the train data is still there, without the appended column
C30_Witness ==
    /\ last.op = "split" /\ last.result = "IndexError"
    /\ ~IsNone(train_data) /\ ~IsNone(forecast_data) /\ ~IsNone(forecast_date)
    /\ "extra" \in ColumnNames(consolidated_data)
    /\ "extra" \notin Range(Get(train_data).columns)

\* C25 as the specification states it: the running range of the unification
\* starts with start = the latest possible date and end = the earliest
\* possible date, and the first table scanned narrows it to that table's
\* first and last dates
C25_StartsInverted ==
    (phase = "ready" /\ last.op = "__init__") =>
        LET first == initial_datasets[1]
        IN  /\ NoRange.start_date = DatetimeMax
            /\ NoRange.end_date = DatetimeMin
            /\ Narrow(NoRange, first) =
                   [start_date |-> FirstDate(first), end_date |-> LastDate(first)]

\* C25, amended: the running range of the unification starts with start = the
\* earliest possible date and end = the latest possible date (no date of a
\* table lies outside it), and the first table scanned narrows it to that
\* table's own first and last dates: the dataset's range is the one the
\* remaining tables narrow that to, and the first table's own span when it
\* is the only table
C25_FirstTableNarrows ==
    (phase = "ready" /\ last.op = "__init__") =>
        LET first == initial_datasets[1]
            own == [start_date |-> FirstDate(first), end_date |-> LastDate(first)]
        IN  /\ NoRange.start_date = DatetimeMin
            /\ NoRange.end_date = DatetimeMax
            /\ \A i \in 1..Len(initial_datasets) : \A d \in Range(initial_datasets[i].index) :
                   NoRange.start_date < d /\ d < NoRange.end_date
            /\ Narrow(NoRange, first) = own
            /\ date_range = Unify(own, Tail(initial_datasets))
            /\ Len(initial_datasets) = 1 => date_range = own

\* a dataset of two tables of which the second starts later and ends earlier
\* than the first: the range is not the first table's span any more
C25_Witness ==
    /\ phase = "ready" /\ last.op = "__init__"
    /\ Len(initial_datasets) = 2
    /\ date_range.start_date > FirstDate(initial_datasets[1])
    /\ date_range.end_date < LastDate(initial_datasets[1])
    /\ date_range.start_date <= date_range.end_date

\* C22: on a PredictionStorage built with max_caches >= 1, after any calls
\* of add_cache, history has at most max_caches caches: the most recent
\* min(n, max_caches) of the n caches added, in the order they were added
\* (the oldest are pruned first), and latest is the cache added last
C22_HistoryIsRecentWindow ==
    (prediction_storage # None /\ prediction_storage.max_caches >= 1) =>
        LET n == Len(added)
            kept == IF n < prediction_storage.max_caches THEN n
                    ELSE prediction_storage.max_caches
        IN  /\ Len(history(prediction_storage)) <= prediction_storage.max_caches
            /\ Len(history(prediction_storage)) = kept
            /\ \A i \in 1..kept : history(prediction_storage)[i] = added[n - kept + i]
            /\ n > 0 => /\ ~latest_Raises(prediction_storage)
                        /\ latest(prediction_storage) = added[n]

\* a storage of at least two caches to which two more caches than it keeps
\* have been added
C22_Witness ==
    /\ prediction_storage # None
    /\ prediction_storage.max_caches >= 2
    /\ Len(added) = prediction_storage.max_caches + 2
    /\ Len(prediction_storage.storage) = prediction_storage.max_caches
    /\ added[1] # added[2]

\* C23: the signature is fixed by the first successful add_cache and never
\* changes afterwards, also when that cache is pruned; a later add_cache with
\* a keyword that is not in the signature, or with a value whose type is not
\* the signature's type for its keyword, fails with ValueError and leaves
\* history and signature as they were; so every cache in history has exactly
\* the signature's attribute names, with values of the signature's types
C23_SignatureUniform ==
    [][(prediction_storage # None /\ last'.op = "add_cache") =>
          LET was == prediction_storage.cache_signature
              is == prediction_storage'.cache_signature
              kwargs == last'.args[1]
          IN  /\ ~IsNone(was) =>
                    /\ is = was
                    /\ (\E key \in DOMAIN kwargs :
                           key \notin DOMAIN Get(was) \/ kwargs[key].type # Get(was)[key]) =>
                          /\ last'.result = "ValueError"
                          /\ prediction_storage' = prediction_storage
              /\ \A i \in 1..Len(history(prediction_storage')) :
                    LET cache == history(prediction_storage')[i]
                    IN  /\ DOMAIN cache = DOMAIN Get(is)
                        /\ \A key \in DOMAIN cache : cache[key].type = Get(is)[key]
      ]_vars

\* a date string is of an earlier day than another
Before(s, t) ==
    \/ s[3] < t[3]
    \/ s[3] = t[3] /\ s[2] < t[2]
    \/ s[3] = t[3] /\ s[2] = t[2] /\ s[1] < t[1]

\* a date is the day a date string writes
IsDay(date, string) == Year(date) = string[3] /\ Month(date) = string[2] /\ Day(date) = string[1]

\* C28: update_date_range widens and never narrows: after every call
\* min_date is the earliest day passed as new_min so far and max_date the
\* latest day passed as new_max so far; min_date never increases and max_date
\* never decreases from one call to the next; and the order of the calls
\* does not matter: the call made and any other call give the same calendar
\* in either order
C28_CalendarWidens ==
    [][last'.op = "update_date_range" =>
          /\ \E s \in passed'.new_min :
                /\ IsDay(master_calendar'.min_date, s)
                /\ \A t \in passed'.new_min : ~Before(t, s)
          /\ \E s \in passed'.new_max :
                /\ IsDay(master_calendar'.max_date, s)
                /\ \A t \in passed'.new_max : ~Before(s, t)
          /\ master_calendar'.min_date <= master_calendar.min_date
          /\ master_calendar'.max_date >= master_calendar.max_date
          /\ \A new_min \in DateStrings : \A new_max \in DateStrings :
                update_date_range(master_calendar', new_min, new_max) =
                   update_date_range(update_date_range(master_calendar, new_min, new_max),
                                     last'.args[1], last'.args[2])
      ]_vars

\* a call whose new_min is later than the min_date kept from an earlier call
\* and whose new_max is earlier than the max_date kept, the day "02-01-2020"
\* having been passed after "01-03-2020"
C28_Witness ==
    /\ last.op = "update_date_range"
    /\ to_datetime(last.args[1]) > master_calendar.min_date
    /\ to_datetime(last.args[2]) < master_calendar.max_date
    /\ master_calendar.min_date = 20200102
    /\ <<1, 3, 2020>> \in passed.new_min
    /\ Cardinality(passed.new_min) >= 3

\* every job of the batch has returned
BatchDone == \A j \in 1..NumJobs : jobs[j].pc = "returned"

\* C26: processor_loop given a progress tracker calls its update exactly once
\* per completed file, whatever its other arguments, with sheet_names None
\* and with a list of sheet names: when a batch of files, all processed with
\* the tracker, is done, update has been called once per file
C26_UpdatePerFile ==
    (BatchDone /\ \A j \in 1..NumJobs : jobs[j].tracked) => update_calls = NumJobs

\* C27: the bar is thread-safe: when every thread that called update has
\* returned, with as many steps as there are threads, the step counter is
\* the number of calls made and the done section has one segment per call,
\* however the calls interleave
C27_NoUpdateLost ==
    BatchDone =>
        /\ progress_tracker.current_step = update_calls
        /\ Len(progress_tracker.done_section) = update_calls

\* the ways of putting the elements of a set in a row
Orderings(S) == {seq \in [1..Cardinality(S) -> S] : Range(seq) = S}

NoCount == [passes |-> 0, failures |-> 0, orders |-> <<>>, raised |-> FALSE]

\* C21: exhaustive_search writes nothing of the session: the train target,
\* the train exogenous frame and the forecast exogenous frame are as they
\* were; and what a configuration (p, d, q) comes to (a pass with its row of
\* metric values, or a failure) does not depend on the other configurations
\* or on their order: when the sweep has returned, evaluating its
\* configurations in any order at all gives the same set of rows and the
\* same counts of passes and failures as the loop gave
C21_SweepOrderIndependent ==
    [][/\ session # None => session' = session
       /\ (session # None /\ pc' = "done") =>
             LET args == Get(sweep'.args)
             IN  \A todo \in Orderings(Product(args)) :
                    LET count == EvaluateAll(Get(session), args, todo, NoCount)
                    IN  /\ Range(count.orders) = Range(orders')
                        /\ count.passes = passes'
                        /\ count.failures = failures'
      ]_vars

\* a sweep over four configurations, the lists in falling order, has
\* returned with passes after a failure
C21_Witness ==
    /\ session # None
    /\ pc = "done"
    /\ Get(sweep.args).p_values = <<1, 0>>
    /\ Get(sweep.args).q_values = <<1, 0>>
    /\ failures >= 1
    /\ passes >= 2
    /\ TryRaises(Get(sweep.args), FitOf(Get(session), attempted[1]))

====
